---- MODULE Spec2Model ----
(***************************************************************************)
(* Generational slot allocators of example_allocators.                     *)
(*                                                                         *)
(* One behaviour follows one allocator object (its struct is `kind`) in    *)
(* one build of the crate (`debug`: cargo's dev profile, where             *)
(* debug_assert! and the integer overflow checks are compiled in; the      *)
(* release profile has neither).  A caller keeps a copy of every handle    *)
(* the allocator has returned (`issued`) and passes any of them to the     *)
(* operations.  A panic ends the behaviour (`halted`).                     *)
(*                                                                         *)
(* Vec and VecDeque are sequences; Rust's 0-based position i is element    *)
(* i + 1 of the sequence.                                                  *)
(***************************************************************************)
EXTENDS Integers, Sequences, FiniteSets

VARIABLES
    kind,       \* the allocator struct this behaviour is about
    debug,      \* TRUE: debug_assert! and overflow checks are compiled in
    entries,    \* the slot vector (indices / elements / entries)
    free,       \* the free list (VecDeque or Vec)
    issued,     \* the handles returned so far (the caller's copies)
    freed,      \* the handles freed while live and not returned again since
    bumps,      \* per slot, the number of generation increments so far
    halted,     \* a panic has unwound the caller
    ret,        \* the last call: operation, handle, result, value, drop
    layout      \* size_of::<T>() and align_of::<T>() of the stored type

vars == <<kind, debug, entries, free, issued, freed, bumps, halted, ret, layout>>

-----------------------------------------------------------------------------
(* Bounds of the model. *)

\* Slots the slot vector may grow to.
MaxSlots == 2

\* Number of values of the generation counter in the model (a u32 has 2^32).
GenMod == 3

\* Largest size_of::<T>() of the stored types whose layout is followed.
MaxSize == 8

-----------------------------------------------------------------------------
(* Types. *)

\* Largest generation (u32::MAX).
GenMax == GenMod - 1

\* Generation increments the model follows (enough for one slot to wrap).
MaxFrees == GenMod + 1

\* T::default() of the stored type.
DefaultVal == 0

\* The values of the stored type T.
Values == {0, 1}

Kinds == {"GenerationalIndices", "GenerationalIndexArray",
          "GenerationalIndexArrayCell", "GIAUninitCell",
          "GenerationalPointersArray", "EntityAllocator",
          "InPlaceMemoryAllocator", "Allocator"}

\* The structs whose handle is an EntityPtr (a raw pointer and a generation).
PtrKinds == {"EntityAllocator", "Allocator"}

-----------------------------------------------------------------------------
(* Slot payloads. *)

\* GenerationalIndices stores no value.
NoItem == [st |-> "na", val |-> DefaultVal]

\* Option::None.
NoneItem == [st |-> "None", val |-> DefaultVal]

\* Option::Some(v).
SomeItem(v) == [st |-> "Some", val |-> v]

\* MaybeUninit after write(v).
Written(v) == [st |-> "init", val |-> v]

\* MaybeUninit after assume_init_drop: the bytes stay, the value is gone.
Dropped(item) == [st |-> "dropped", val |-> item.val]

\* What a drop acts on: a value, or memory that holds none.
DropOf(item) == IF item.st \in {"init", "Some"} THEN "value" ELSE "again"

-----------------------------------------------------------------------------
(* Memory layout of the boxed entries (pointer handles). *)

\* size_of::<EntryHeader>(): one u32.
HeaderSize == 4

\* size_of and align_of of the stored type (the tests' Entity, 64-bit).
SizeOfT == 40
AlignOfT == 8

Max(a, b) == IF a >= b THEN a ELSE b

RoundUp(n, a) == ((n + a - 1) \div a) * a

\* Offset of `item` in the repr(C) EntityEntry<T>.
ItemOffset(align) == RoundUp(HeaderSize, align)

\* size_of::<EntityEntry<T>>().
EntrySize(size, align) ==
    RoundUp(ItemOffset(align) + size, Max(HeaderSize, align))

\* Address of the i-th Box (the heap hands out distinct blocks).
BoxAddr(i) == (i + 1) * EntrySize(SizeOfT, AlignOfT)

\* new_entry.item.as_mut_ptr(): the address of the value.
ItemAddr(i) == BoxAddr(i) + ItemOffset(AlignOfT)

\* EntityEntry::from_ptr: the address the header is read at.
from_ptr(ptr) == ptr - (EntrySize(SizeOfT, AlignOfT) - SizeOfT)

\* The slot whose Box starts at address a.
SlotAt(a) == (a \div EntrySize(SizeOfT, AlignOfT)) - 1

-----------------------------------------------------------------------------
(* Handles. *)

\* Mutant: the handle names the slot after its own.
GenerationalIndex_next_slot(i, g) == [index |-> i + 1, generation |-> g]

GenerationalIndex(i, g) == [index |-> i, generation |-> g]

EntityPtr(p, g) == [ptr |-> p, generation |-> g]

\* The slot a handle refers to.
Slot(h) ==
    IF kind = "EntityAllocator" THEN SlotAt(from_ptr(h.ptr))
    ELSE IF kind = "Allocator" THEN SlotAt(h.ptr)
    ELSE h.index

NoHandle == IF kind \in PtrKinds THEN EntityPtr(0, 0) ELSE GenerationalIndex(0, 0)

\* Entry of slot i (0-based).
At(i) == entries[i + 1]

\* index.generation == self.indices[index.index], and its copies.
is_live(h) == h.generation = At(Slot(h)).generation

-----------------------------------------------------------------------------
(* Vec and VecDeque. *)

pop_front(q) == Tail(q)

\* Mutant: the queue is read at its newest element.
front_newest(q) == q[Len(q)]

front(q) == Head(q)

pop(v) == SubSeq(v, 1, Len(v) - 1)

\* Mutant: the free list is read at its oldest element.
last_oldest(v) == v[1]

last(v) == v[Len(v)]

push(v, x) == Append(v, x)

\* Mutant: free forgets to increment the generation.
wrapping_inc_forgotten(g) == g

\* Mutant: the increment saturates at the largest generation.
wrapping_inc_saturating(g) == IF g = GenMod - 1 THEN g ELSE g + 1

\* generation += 1 on u32 where it does not panic.
wrapping_inc(g) == (g + 1) % GenMod

\* Mutant: no build checks the increment for overflow.
overflows_never(g) == FALSE

\* generation += 1 panics: the overflow check of a debug build.
overflows(g) == debug /\ g = GenMax

\* Mutant: the generation is incremented once more.
SetGen_once_more(i, g) == [entries EXCEPT ![i + 1].generation = (g + 1) % GenMod]

\* Mutant: the increment lands on the first slot, whatever the index.
SetGen_first_slot(i, g) == [entries EXCEPT ![1].generation = g]

\* self.indices[index.index] = g (the store of += 1).
SetGen(i, g) == [entries EXCEPT ![i + 1].generation = g]

\* Mutant: the store takes the value out of the slot (Option::take).
SetItem_taking(es, i, it) == [es EXCEPT ![i + 1].item = NoneItem]

SetItem(es, i, it) == [es EXCEPT ![i + 1].item = it]

Sum(s) == IF s = <<>> THEN 0 ELSE LET F[k \in 0..Len(s)] == IF k = 0 THEN 0 ELSE F[k - 1] + s[k] IN F[Len(s)]

-----------------------------------------------------------------------------
(* What a call leaves behind for the caller. *)

\* Liveness (glossary): the captured generation is the slot's generation.
Live(h) == h.generation = entries[Slot(h) + 1].generation

\* The call's record; live: whether the handle passed in was live then.
Ret(op, h, res, val, drop) ==
    ret' = [op |-> op, h |-> h, res |-> res, val |-> val, drop |-> drop,
            live |-> IF op \in {"new", "allocate"} THEN TRUE ELSE Live(h)]

\* allocate returned h.
Issue(h) ==
    /\ issued' = issued \cup {h}
    /\ freed' = {f \in freed : f.h # h}

\* free(h) of a live handle completed, as the at-th increment of its slot.
Retire(h) ==
    /\ freed' = freed \cup {[h |-> h, at |-> bumps'[Slot(h) + 1]]}
    /\ issued' = issued

Init ==
    /\ kind \in Kinds
    /\ debug \in BOOLEAN
    /\ entries = <<>>
    /\ free = <<>>
    /\ issued = {}
    /\ freed = {}
    /\ bumps = <<>>
    /\ halted = FALSE
    /\ ret = [op |-> "default", h |-> NoHandle, res |-> "ok",
              val |-> DefaultVal, drop |-> "none", live |-> TRUE]
    /\ layout = [size |-> SizeOfT, align |-> AlignOfT]

-----------------------------------------------------------------------------
(* GenerationalIndices: the bare table. *)

GenerationalIndices_new ==
    /\ kind = "GenerationalIndices" /\ ~halted
    /\ IF free = <<>>
       THEN /\ Len(entries) < MaxSlots
            /\ entries' = push(entries, [generation |-> 0, item |-> NoItem])
            /\ bumps' = push(bumps, 0)
            /\ free' = free
            /\ Issue(GenerationalIndex(Len(entries), 0))
            /\ Ret("new", GenerationalIndex(Len(entries), 0), "ok", DefaultVal, "none")
       ELSE LET index == front(free)
                generation == At(index).generation
            IN  /\ free' = pop_front(free)
                /\ Issue(GenerationalIndex(index, generation))
                /\ Ret("new", GenerationalIndex(index, generation), "ok", DefaultVal, "none")
                /\ UNCHANGED <<entries, bumps>>
    /\ UNCHANGED <<layout, kind, debug, halted>>

GenerationalIndices_is_live(h) ==
    /\ kind = "GenerationalIndices" /\ ~halted
    /\ Ret("is_live", h, IF is_live(h) THEN "true" ELSE "false", DefaultVal, "none")
    /\ UNCHANGED <<layout, kind, debug, entries, free, issued, freed, bumps, halted>>

\* Mutant: free without the liveness check.
GenerationalIndices_free_unchecked(h) ==
    /\ kind = "GenerationalIndices" /\ ~halted
    /\ Len(entries) > 0
    /\ Sum(bumps) < MaxFrees
    /\ free' = push(free, h.index)
    /\ entries' = SetGen(h.index, wrapping_inc(At(h.index).generation))
    /\ bumps' = [bumps EXCEPT ![h.index + 1] = @ + 1]
    /\ Retire(h)
    /\ Ret("free", h, "ok", DefaultVal, "none")
    /\ UNCHANGED <<layout, kind, debug, halted>>

GenerationalIndices_free(h) ==
    /\ kind = "GenerationalIndices" /\ ~halted
    /\ IF ~is_live(h)
       THEN /\ Ret("free", h, "ok", DefaultVal, "none")
            /\ UNCHANGED <<entries, free, issued, freed, bumps, halted>>
       ELSE /\ Sum(bumps) < MaxFrees
            /\ free' = push(free, h.index)
            /\ IF overflows(At(h.index).generation)
               THEN /\ halted' = TRUE
                    /\ Ret("free", h, "panic", DefaultVal, "none")
                    /\ UNCHANGED <<entries, issued, freed, bumps>>
               ELSE /\ entries' = SetGen(h.index, wrapping_inc(At(h.index).generation))
                    /\ bumps' = [bumps EXCEPT ![h.index + 1] = @ + 1]
                    /\ Retire(h)
                    /\ Ret("free", h, "ok", DefaultVal, "none")
                    /\ UNCHANGED halted
    /\ UNCHANGED <<layout, kind, debug>>

-----------------------------------------------------------------------------
(* GenerationalIndexArray: the table with an Option<T> per slot. *)

GenerationalIndexArray_new(element) ==
    /\ kind = "GenerationalIndexArray" /\ ~halted
    /\ IF free = <<>>
       THEN /\ Len(entries) < MaxSlots
            /\ entries' = push(entries, [generation |-> 0, item |-> SomeItem(element)])
            /\ bumps' = push(bumps, 0)
            /\ free' = free
            /\ Issue(GenerationalIndex(Len(entries), 0))
            /\ Ret("new", GenerationalIndex(Len(entries), 0), "ok", element, "none")
       ELSE LET index == front(free)
                generation == At(index).generation
            IN  /\ free' = pop_front(free)
                /\ entries' = SetItem(entries, index, SomeItem(element))
                /\ Issue(GenerationalIndex(index, generation))
                /\ Ret("new", GenerationalIndex(index, generation), "ok", element,
                       IF At(index).item.st = "Some" THEN "value" ELSE "none")
                /\ UNCHANGED bumps
    /\ UNCHANGED <<layout, kind, debug, halted>>

GenerationalIndexArray_is_live(h) ==
    /\ kind = "GenerationalIndexArray" /\ ~halted
    /\ Ret("is_live", h, IF is_live(h) THEN "true" ELSE "false", DefaultVal, "none")
    /\ UNCHANGED <<layout, kind, debug, entries, free, issued, freed, bumps, halted>>

\* Mutant: a stale free returns quietly, as GenerationalIndices::free does.
GenerationalIndexArray_free_quiet(h) ==
    /\ kind = "GenerationalIndexArray" /\ ~halted
    /\ IF ~is_live(h)
       THEN /\ Ret("free", h, "ok", DefaultVal, "none")
            /\ UNCHANGED <<entries, free, issued, freed, bumps, halted>>
       ELSE /\ Sum(bumps) < MaxFrees
            /\ ~overflows(At(h.index).generation)
            /\ free' = push(free, h.index)
            /\ entries' = SetItem(SetGen(h.index, wrapping_inc(At(h.index).generation)),
                                  h.index, NoneItem)
            /\ bumps' = [bumps EXCEPT ![h.index + 1] = @ + 1]
            /\ Retire(h)
            /\ Ret("free", h, "ok", DefaultVal,
                   IF At(h.index).item.st = "Some" THEN "value" ELSE "none")
            /\ UNCHANGED halted
    /\ UNCHANGED <<layout, kind, debug>>

GenerationalIndexArray_free(h) ==
    /\ kind = "GenerationalIndexArray" /\ ~halted
    /\ IF ~is_live(h)
       THEN /\ halted' = TRUE
            /\ Ret("free", h, "panic", DefaultVal, "none")
            /\ UNCHANGED <<entries, free, issued, freed, bumps>>
       ELSE /\ Sum(bumps) < MaxFrees
            /\ free' = push(free, h.index)
            /\ IF overflows(At(h.index).generation)
               THEN /\ halted' = TRUE
                    /\ Ret("free", h, "panic", DefaultVal, "none")
                    /\ UNCHANGED <<entries, issued, freed, bumps>>
               ELSE /\ entries' = SetItem(SetGen(h.index, wrapping_inc(At(h.index).generation)),
                                          h.index, NoneItem)
                    /\ bumps' = [bumps EXCEPT ![h.index + 1] = @ + 1]
                    /\ Retire(h)
                    /\ Ret("free", h, "ok", DefaultVal,
                           IF At(h.index).item.st = "Some" THEN "value" ELSE "none")
                    /\ UNCHANGED halted
    /\ UNCHANGED <<layout, kind, debug>>

\* Mutant: the lookup loses the item.
as_ref_none(item) == "None"

\* self.elements[i].item.as_ref() / as_mut(): "Some" or "None".
as_ref(item) == item.st

GenerationalIndexArray_get(h) ==
    /\ kind = "GenerationalIndexArray" /\ ~halted
    /\ IF ~is_live(h)
       THEN Ret("get", h, "None", DefaultVal, "none")
       ELSE Ret("get", h, as_ref(At(h.index).item), At(h.index).item.val, "none")
    /\ UNCHANGED <<layout, kind, debug, entries, free, issued, freed, bumps, halted>>

\* get_mut, and the caller's assignment of v through the reference it got.
GenerationalIndexArray_get_mut(h, v) ==
    /\ kind = "GenerationalIndexArray" /\ ~halted
    /\ IF ~is_live(h)
       THEN /\ Ret("get_mut", h, "None", DefaultVal, "none")
            /\ UNCHANGED entries
       ELSE IF as_ref(At(h.index).item) = "Some"
            THEN /\ entries' = SetItem(entries, h.index, SomeItem(v))
                 /\ Ret("get_mut", h, "Some", v, "value")
            ELSE /\ Ret("get_mut", h, "None", DefaultVal, "none")
                 /\ UNCHANGED entries
    /\ UNCHANGED <<layout, kind, debug, free, issued, freed, bumps, halted>>

-----------------------------------------------------------------------------
(* GenerationalIndexArrayCell: the item is a Box<Option<RefCell<T>>>. *)

GenerationalIndexArrayCell_new(element) ==
    /\ kind = "GenerationalIndexArrayCell" /\ ~halted
    /\ IF free = <<>>
       THEN /\ Len(entries) < MaxSlots
            /\ entries' = push(entries, [generation |-> 0, item |-> SomeItem(element)])
            /\ bumps' = push(bumps, 0)
            /\ free' = free
            /\ Issue(GenerationalIndex(Len(entries), 0))
            /\ Ret("new", GenerationalIndex(Len(entries), 0), "ok", element, "none")
       ELSE LET index == front(free)
                generation == At(index).generation
            IN  /\ free' = pop_front(free)
                /\ entries' = SetItem(entries, index, SomeItem(element))
                /\ Issue(GenerationalIndex(index, generation))
                /\ Ret("new", GenerationalIndex(index, generation), "ok", element,
                       IF At(index).item.st = "Some" THEN "value" ELSE "none")
                /\ UNCHANGED bumps
    /\ UNCHANGED <<layout, kind, debug, halted>>

GenerationalIndexArrayCell_is_live(h) ==
    /\ kind = "GenerationalIndexArrayCell" /\ ~halted
    /\ Ret("is_live", h, IF is_live(h) THEN "true" ELSE "false", DefaultVal, "none")
    /\ UNCHANGED <<layout, kind, debug, entries, free, issued, freed, bumps, halted>>

GenerationalIndexArrayCell_free(h) ==
    /\ kind = "GenerationalIndexArrayCell" /\ ~halted
    /\ IF ~is_live(h)
       THEN /\ halted' = TRUE
            /\ Ret("free", h, "panic", DefaultVal, "none")
            /\ UNCHANGED <<entries, free, issued, freed, bumps>>
       ELSE /\ Sum(bumps) < MaxFrees
            /\ free' = push(free, h.index)
            /\ IF overflows(At(h.index).generation)
               THEN /\ halted' = TRUE
                    /\ Ret("free", h, "panic", DefaultVal, "none")
                    /\ UNCHANGED <<entries, issued, freed, bumps>>
               ELSE /\ entries' = SetItem(SetGen(h.index, wrapping_inc(At(h.index).generation)),
                                          h.index, NoneItem)
                    /\ bumps' = [bumps EXCEPT ![h.index + 1] = @ + 1]
                    /\ Retire(h)
                    /\ Ret("free", h, "ok", DefaultVal,
                           IF At(h.index).item.st = "Some" THEN "value" ELSE "none")
                    /\ UNCHANGED halted
    /\ UNCHANGED <<layout, kind, debug>>

\* get, and what the caller does with the RefCell: borrow() to read, or
\* borrow_mut() to assign v (write = TRUE).
GenerationalIndexArrayCell_get(h, write, v) ==
    /\ kind = "GenerationalIndexArrayCell" /\ ~halted
    /\ write \/ v = DefaultVal
    /\ IF ~is_live(h) \/ as_ref(At(h.index).item) = "None"
       THEN /\ Ret("get", h, "None", DefaultVal, "none")
            /\ UNCHANGED entries
       ELSE IF write
            THEN /\ entries' = SetItem(entries, h.index, SomeItem(v))
                 /\ Ret("get", h, "Some", v, "value")
            ELSE /\ Ret("get", h, "Some", At(h.index).item.val, "none")
                 /\ UNCHANGED entries
    /\ UNCHANGED <<layout, kind, debug, free, issued, freed, bumps, halted>>

-----------------------------------------------------------------------------
(* GIAUninitCell: the item is a RefCell<MaybeUninit<T>>. *)

GIAUninitCell_new(element) ==
    /\ kind = "GIAUninitCell" /\ ~halted
    /\ IF free = <<>>
       THEN /\ Len(entries) < MaxSlots
            /\ entries' = push(entries, [generation |-> 0, item |-> Written(element)])
            /\ bumps' = push(bumps, 0)
            /\ free' = free
            /\ Issue(GenerationalIndex(Len(entries), 0))
            /\ Ret("new", GenerationalIndex(Len(entries), 0), "ok", element, "none")
       ELSE LET index == front(free)
                generation == At(index).generation
            IN  /\ free' = pop_front(free)
                /\ entries' = SetItem(entries, index, Written(element))
                /\ Issue(GenerationalIndex(index, generation))
                /\ Ret("new", GenerationalIndex(index, generation), "ok", element, "none")
                /\ UNCHANGED bumps
    /\ UNCHANGED <<layout, kind, debug, halted>>

GIAUninitCell_is_live(h) ==
    /\ kind = "GIAUninitCell" /\ ~halted
    /\ Ret("is_live", h, IF is_live(h) THEN "true" ELSE "false", DefaultVal, "none")
    /\ UNCHANGED <<layout, kind, debug, entries, free, issued, freed, bumps, halted>>

GIAUninitCell_free(h) ==
    /\ kind = "GIAUninitCell" /\ ~halted
    /\ IF ~is_live(h)
       THEN /\ halted' = TRUE
            /\ Ret("free", h, "panic", DefaultVal, "none")
            /\ UNCHANGED <<entries, free, issued, freed, bumps>>
       ELSE /\ Sum(bumps) < MaxFrees
            /\ free' = push(free, h.index)
            /\ IF overflows(At(h.index).generation)
               THEN /\ halted' = TRUE
                    /\ Ret("free", h, "panic", DefaultVal, "none")
                    /\ UNCHANGED <<entries, issued, freed, bumps>>
               ELSE /\ entries' = SetItem(SetGen(h.index, wrapping_inc(At(h.index).generation)),
                                          h.index, Dropped(At(h.index).item))
                    /\ bumps' = [bumps EXCEPT ![h.index + 1] = @ + 1]
                    /\ Retire(h)
                    /\ Ret("free", h, "ok", DefaultVal, DropOf(At(h.index).item))
                    /\ UNCHANGED halted
    /\ UNCHANGED <<layout, kind, debug>>

\* get, and what the caller does with the cell: assume_init_ref to read, or
\* assume_init_mut to assign v (write = TRUE).
GIAUninitCell_get(h, write, v) ==
    /\ kind = "GIAUninitCell" /\ ~halted
    /\ write \/ v = DefaultVal
    /\ IF ~is_live(h)
       THEN /\ Ret("get", h, "None", DefaultVal, "none")
            /\ UNCHANGED entries
       ELSE IF write
            THEN /\ entries' = [entries EXCEPT ![h.index + 1].item.val = v]
                 /\ Ret("get", h, "Some", v, DropOf(At(h.index).item))
            ELSE /\ Ret("get", h, "Some", At(h.index).item.val, "none")
                 /\ UNCHANGED entries
    /\ UNCHANGED <<layout, kind, debug, free, issued, freed, bumps, halted>>

-----------------------------------------------------------------------------
(* GenerationalPointersArray: a Box<MaybeUninit<T>> per slot, Vec free list. *)

GenerationalPointersArray_allocate ==
    /\ kind = "GenerationalPointersArray" /\ ~halted
    /\ IF free = <<>>
       THEN /\ Len(entries) < MaxSlots
            /\ entries' = push(entries, [generation |-> 0, item |-> Written(DefaultVal)])
            /\ bumps' = push(bumps, 0)
            /\ free' = free
            /\ Issue(GenerationalIndex(Len(entries), 0))
            /\ Ret("allocate", GenerationalIndex(Len(entries), 0), "ok", DefaultVal, "none")
       ELSE LET next_free == last(free)
            IN  /\ free' = pop(free)
                /\ entries' = SetItem(entries, next_free, Written(DefaultVal))
                /\ Issue(GenerationalIndex(next_free, At(next_free).generation))
                /\ Ret("allocate", GenerationalIndex(next_free, At(next_free).generation),
                       "ok", DefaultVal, "none")
                /\ UNCHANGED bumps
    /\ UNCHANGED <<layout, kind, debug, halted>>

GenerationalPointersArray_is_live(h) ==
    /\ kind = "GenerationalPointersArray" /\ ~halted
    /\ Ret("is_live", h, IF is_live(h) THEN "true" ELSE "false", DefaultVal, "none")
    /\ UNCHANGED <<layout, kind, debug, entries, free, issued, freed, bumps, halted>>

\* get, and the caller's read or assignment of v through the &mut T.
GenerationalPointersArray_get(h, write, v) ==
    /\ kind = "GenerationalPointersArray" /\ ~halted
    /\ write \/ v = DefaultVal
    /\ IF ~is_live(h)
       THEN /\ Ret("get", h, "None", DefaultVal, "none")
            /\ UNCHANGED entries
       ELSE IF write
            THEN /\ entries' = [entries EXCEPT ![h.index + 1].item.val = v]
                 /\ Ret("get", h, "Some", v, DropOf(At(h.index).item))
            ELSE /\ Ret("get", h, "Some", At(h.index).item.val, "none")
                 /\ UNCHANGED entries
    /\ UNCHANGED <<layout, kind, debug, free, issued, freed, bumps, halted>>

GenerationalPointersArray_free(h) ==
    /\ kind = "GenerationalPointersArray" /\ ~halted
    /\ IF ~is_live(h)
       THEN /\ halted' = TRUE
            /\ Ret("free", h, "panic", DefaultVal, "none")
            /\ UNCHANGED <<entries, free, issued, freed, bumps>>
       ELSE /\ Sum(bumps) < MaxFrees
            /\ free' = push(free, h.index)
            /\ IF overflows(At(h.index).generation)
               THEN /\ halted' = TRUE
                    /\ Ret("free", h, "panic", DefaultVal, "none")
                    /\ UNCHANGED <<entries, issued, freed, bumps>>
               ELSE /\ entries' = SetItem(SetGen(h.index, wrapping_inc(At(h.index).generation)),
                                          h.index, Dropped(At(h.index).item))
                    /\ bumps' = [bumps EXCEPT ![h.index + 1] = @ + 1]
                    /\ Retire(h)
                    /\ Ret("free", h, "ok", DefaultVal, DropOf(At(h.index).item))
                    /\ UNCHANGED halted
    /\ UNCHANGED <<layout, kind, debug>>

-----------------------------------------------------------------------------
(* EntityAllocator: boxed header + value blocks, the handle is an EntityPtr *)
(* to the value.  init_fn either assigns v to the value (set) or leaves it  *)
(* as it finds it.                                                          *)

EntityAllocator_allocate(set, v) ==
    /\ kind = "EntityAllocator" /\ ~halted
    /\ set \/ v = DefaultVal
    /\ IF free = <<>>
       THEN LET t_ptr == ItemAddr(Len(entries))
                val == IF set THEN v ELSE DefaultVal
            IN  /\ Len(entries) < MaxSlots
                /\ entries' = push(entries, [generation |-> 0, item |-> Written(val)])
                /\ bumps' = push(bumps, 0)
                /\ free' = free
                /\ Issue(EntityPtr(t_ptr, 0))
                /\ Ret("allocate", EntityPtr(t_ptr, 0), "ok", val,
                       IF set THEN "value" ELSE "none")
       ELSE LET entity_ptr == last(free)
                entry == SlotAt(from_ptr(entity_ptr))
            IN  /\ free' = pop(free)
                /\ entries' = IF set THEN SetItem(entries, entry, Written(v)) ELSE entries
                /\ Issue(EntityPtr(entity_ptr, At(entry).generation))
                /\ Ret("allocate", EntityPtr(entity_ptr, At(entry).generation), "ok",
                       IF set THEN v ELSE At(entry).item.val,
                       IF set THEN DropOf(At(entry).item) ELSE "none")
                /\ UNCHANGED bumps
    /\ UNCHANGED <<layout, kind, debug, halted>>

EntityAllocator_free(h) ==
    /\ kind = "EntityAllocator" /\ ~halted
    /\ IF ~is_live(h)
       THEN /\ halted' = TRUE
            /\ Ret("free", h, "panic", DefaultVal, "none")
            /\ UNCHANGED <<entries, free, issued, freed, bumps>>
       ELSE LET entry == SlotAt(from_ptr(h.ptr))
            IN  /\ Sum(bumps) < MaxFrees
                /\ IF overflows(At(entry).generation)
                   THEN /\ halted' = TRUE
                        /\ Ret("free", h, "panic", DefaultVal, "none")
                        /\ UNCHANGED <<entries, free, issued, freed, bumps>>
                   ELSE /\ entries' = SetItem(SetGen(entry, wrapping_inc(At(entry).generation)),
                                              entry, Dropped(At(entry).item))
                        /\ bumps' = [bumps EXCEPT ![entry + 1] = @ + 1]
                        /\ free' = push(free, h.ptr)
                        /\ Retire(h)
                        /\ Ret("free", h, "ok", DefaultVal, DropOf(At(entry).item))
                        /\ UNCHANGED halted
    /\ UNCHANGED <<layout, kind, debug>>

EntityPtr_is_live(h) ==
    /\ kind = "EntityAllocator" /\ ~halted
    /\ Ret("is_live", h, IF is_live(h) THEN "true" ELSE "false", DefaultVal, "none")
    /\ UNCHANGED <<layout, kind, debug, entries, free, issued, freed, bumps, halted>>

EntityPtr_deref(h) ==
    /\ kind = "EntityAllocator" /\ ~halted
    /\ IF debug /\ ~is_live(h)
       THEN /\ halted' = TRUE
            /\ Ret("deref", h, "panic", DefaultVal, "none")
       ELSE /\ Ret("deref", h, "ref", At(Slot(h)).item.val, "none")
            /\ UNCHANGED halted
    /\ UNCHANGED <<layout, kind, debug, entries, free, issued, freed, bumps>>

\* deref_mut, and the caller's assignment of v through the &mut T.
EntityPtr_deref_mut(h, v) ==
    /\ kind = "EntityAllocator" /\ ~halted
    /\ IF debug /\ ~is_live(h)
       THEN /\ halted' = TRUE
            /\ Ret("deref_mut", h, "panic", DefaultVal, "none")
            /\ UNCHANGED entries
       ELSE /\ entries' = [entries EXCEPT ![Slot(h) + 1].item.val = v]
            /\ Ret("deref_mut", h, "ref", v, DropOf(At(Slot(h)).item))
            /\ UNCHANGED halted
    /\ UNCHANGED <<layout, kind, debug, free, issued, freed, bumps>>

-----------------------------------------------------------------------------
(* InPlaceMemoryAllocator: the values live in the slot vector itself. *)

InPlaceMemoryAllocator_allocate ==
    /\ kind = "InPlaceMemoryAllocator" /\ ~halted
    /\ IF free = <<>>
       THEN /\ Len(entries) < MaxSlots
            /\ entries' = push(entries, [generation |-> 0, item |-> Written(DefaultVal)])
            /\ bumps' = push(bumps, 0)
            /\ free' = free
            /\ Issue(GenerationalIndex(Len(entries), 0))
            /\ Ret("allocate", GenerationalIndex(Len(entries), 0), "ok", DefaultVal, "none")
       ELSE LET next_free == last(free)
            IN  /\ free' = pop(free)
                /\ entries' = SetItem(entries, next_free, Written(DefaultVal))
                /\ Issue(GenerationalIndex(next_free, At(next_free).generation))
                /\ Ret("allocate", GenerationalIndex(next_free, At(next_free).generation),
                       "ok", DefaultVal, "none")
                /\ UNCHANGED bumps
    /\ UNCHANGED <<layout, kind, debug, halted>>

InPlaceMemoryAllocator_is_live(h) ==
    /\ kind = "InPlaceMemoryAllocator" /\ ~halted
    /\ Ret("is_live", h, IF is_live(h) THEN "true" ELSE "false", DefaultVal, "none")
    /\ UNCHANGED <<layout, kind, debug, entries, free, issued, freed, bumps, halted>>

\* get, and the caller's read or assignment of v through the &mut T.
InPlaceMemoryAllocator_get(h, write, v) ==
    /\ kind = "InPlaceMemoryAllocator" /\ ~halted
    /\ write \/ v = DefaultVal
    /\ IF debug /\ ~is_live(h)
       THEN /\ halted' = TRUE
            /\ Ret("get", h, "panic", DefaultVal, "none")
            /\ UNCHANGED entries
       ELSE /\ IF write
               THEN /\ entries' = [entries EXCEPT ![h.index + 1].item.val = v]
                    /\ Ret("get", h, "ref", v, DropOf(At(h.index).item))
               ELSE /\ Ret("get", h, "ref", At(h.index).item.val, "none")
                    /\ UNCHANGED entries
            /\ UNCHANGED halted
    /\ UNCHANGED <<layout, kind, debug, free, issued, freed, bumps>>

InPlaceMemoryAllocator_free(h) ==
    /\ kind = "InPlaceMemoryAllocator" /\ ~halted
    /\ IF ~is_live(h)
       THEN /\ halted' = TRUE
            /\ Ret("free", h, "panic", DefaultVal, "none")
            /\ UNCHANGED <<entries, free, issued, freed, bumps>>
       ELSE /\ Sum(bumps) < MaxFrees
            /\ free' = push(free, h.index)
            /\ IF overflows(At(h.index).generation)
               THEN /\ halted' = TRUE
                    /\ Ret("free", h, "panic", DefaultVal, "none")
                    /\ UNCHANGED <<entries, issued, freed, bumps>>
               ELSE /\ entries' = SetItem(SetGen(h.index, wrapping_inc(At(h.index).generation)),
                                          h.index, Dropped(At(h.index).item))
                    /\ bumps' = [bumps EXCEPT ![h.index + 1] = @ + 1]
                    /\ Retire(h)
                    /\ Ret("free", h, "ok", DefaultVal, DropOf(At(h.index).item))
                    /\ UNCHANGED halted
    /\ UNCHANGED <<layout, kind, debug>>

-----------------------------------------------------------------------------
(* allocator_with_pointer::Allocator: boxed entries, the handle is an      *)
(* EntityPtr to the entry; free checks liveness with debug_assert! only.   *)

Allocator_new(element) ==
    /\ kind = "Allocator" /\ ~halted
    /\ IF free = <<>>
       THEN LET new_entry_index == Len(entries)
            IN  /\ Len(entries) < MaxSlots
                /\ entries' = push(entries, [generation |-> 0, item |-> Written(element)])
                /\ bumps' = push(bumps, 0)
                /\ free' = free
                /\ Issue(EntityPtr(BoxAddr(new_entry_index), 0))
                /\ Ret("new", EntityPtr(BoxAddr(new_entry_index), 0), "ok", element, "none")
       ELSE LET next_free == last(free)
                generation == At(SlotAt(next_free)).generation
            IN  /\ free' = pop(free)
                /\ entries' = SetItem(entries, SlotAt(next_free), Written(element))
                /\ Issue(EntityPtr(next_free, generation))
                /\ Ret("new", EntityPtr(next_free, generation), "ok", element, "none")
                /\ UNCHANGED bumps
    /\ UNCHANGED <<layout, kind, debug, halted>>

Allocator_free(h) ==
    /\ kind = "Allocator" /\ ~halted
    /\ IF debug /\ ~is_live(h)
       THEN /\ halted' = TRUE
            /\ Ret("free", h, "panic", DefaultVal, "none")
            /\ UNCHANGED <<entries, free, issued, freed, bumps>>
       ELSE LET entry == SlotAt(h.ptr)
            IN  /\ Sum(bumps) < MaxFrees
                /\ free' = push(free, h.ptr)
                /\ IF overflows(At(entry).generation)
                   THEN /\ halted' = TRUE
                        /\ Ret("free", h, "panic", DefaultVal, "none")
                        /\ UNCHANGED <<entries, issued, freed, bumps>>
                   ELSE /\ entries' = SetItem(SetGen(entry, wrapping_inc(At(entry).generation)),
                                              entry, Dropped(At(entry).item))
                        /\ bumps' = [bumps EXCEPT ![entry + 1] = @ + 1]
                        /\ IF Live(h) THEN Retire(h) ELSE UNCHANGED <<issued, freed>>
                        /\ Ret("free", h, "ok", DefaultVal, DropOf(At(entry).item))
                        /\ UNCHANGED halted
    /\ UNCHANGED <<layout, kind, debug>>

Allocator_EntityPtr_is_live(h) ==
    /\ kind = "Allocator" /\ ~halted
    /\ Ret("is_live", h, IF is_live(h) THEN "true" ELSE "false", DefaultVal, "none")
    /\ UNCHANGED <<layout, kind, debug, entries, free, issued, freed, bumps, halted>>

Allocator_EntityPtr_deref(h) ==
    /\ kind = "Allocator" /\ ~halted
    /\ IF debug /\ ~is_live(h)
       THEN /\ halted' = TRUE
            /\ Ret("deref", h, "panic", DefaultVal, "none")
       ELSE /\ Ret("deref", h, "ref", At(Slot(h)).item.val, "none")
            /\ UNCHANGED halted
    /\ UNCHANGED <<layout, kind, debug, entries, free, issued, freed, bumps>>

\* deref_mut, and the caller's assignment of v through the &mut T.
Allocator_EntityPtr_deref_mut(h, v) ==
    /\ kind = "Allocator" /\ ~halted
    /\ IF debug /\ ~is_live(h)
       THEN /\ halted' = TRUE
            /\ Ret("deref_mut", h, "panic", DefaultVal, "none")
            /\ UNCHANGED entries
       ELSE /\ entries' = [entries EXCEPT ![Slot(h) + 1].item.val = v]
            /\ Ret("deref_mut", h, "ref", v, DropOf(At(Slot(h)).item))
            /\ UNCHANGED halted
    /\ UNCHANGED <<layout, kind, debug, free, issued, freed, bumps>>

-----------------------------------------------------------------------------

Next ==
    \/ GenerationalIndices_new
    \/ \E h \in issued : GenerationalIndices_is_live(h)
    \/ \E h \in issued : GenerationalIndices_free(h)
    \/ \E element \in Values : GenerationalIndexArray_new(element)
    \/ \E h \in issued : GenerationalIndexArray_is_live(h)
    \/ \E h \in issued : GenerationalIndexArray_free(h)
    \/ \E h \in issued : GenerationalIndexArray_get(h)
    \/ \E h \in issued, v \in Values : GenerationalIndexArray_get_mut(h, v)
    \/ \E element \in Values : GenerationalIndexArrayCell_new(element)
    \/ \E h \in issued : GenerationalIndexArrayCell_is_live(h)
    \/ \E h \in issued : GenerationalIndexArrayCell_free(h)
    \/ \E h \in issued, write \in BOOLEAN, v \in Values : GenerationalIndexArrayCell_get(h, write, v)
    \/ \E element \in Values : GIAUninitCell_new(element)
    \/ \E h \in issued : GIAUninitCell_is_live(h)
    \/ \E h \in issued : GIAUninitCell_free(h)
    \/ \E h \in issued, write \in BOOLEAN, v \in Values : GIAUninitCell_get(h, write, v)
    \/ GenerationalPointersArray_allocate
    \/ \E h \in issued : GenerationalPointersArray_is_live(h)
    \/ \E h \in issued, write \in BOOLEAN, v \in Values : GenerationalPointersArray_get(h, write, v)
    \/ \E h \in issued : GenerationalPointersArray_free(h)
    \/ \E set \in BOOLEAN, v \in Values : EntityAllocator_allocate(set, v)
    \/ \E h \in issued : EntityAllocator_free(h)
    \/ \E h \in issued : EntityPtr_is_live(h)
    \/ \E h \in issued : EntityPtr_deref(h)
    \/ \E h \in issued, v \in Values : EntityPtr_deref_mut(h, v)
    \/ InPlaceMemoryAllocator_allocate
    \/ \E h \in issued : InPlaceMemoryAllocator_is_live(h)
    \/ \E h \in issued, write \in BOOLEAN, v \in Values : InPlaceMemoryAllocator_get(h, write, v)
    \/ \E h \in issued : InPlaceMemoryAllocator_free(h)
    \/ \E element \in Values : Allocator_new(element)
    \/ \E h \in issued : Allocator_free(h)
    \/ \E h \in issued : Allocator_EntityPtr_is_live(h)
    \/ \E h \in issued : Allocator_EntityPtr_deref(h)
    \/ \E h \in issued, v \in Values : Allocator_EntityPtr_deref_mut(h, v)

Spec == Init /\ [][Next]_vars

-----------------------------------------------------------------------------
(* Properties. *)

\* The handles freed while live and not returned again since.
FreedHandles == {f.h : f \in freed}

AllocOps == {"new", "allocate"}

LookupOps == {"get", "get_mut"}

DerefOps == {"deref", "deref_mut"}

\* The stored payload of the slot of h.
ItemOf(h) == entries[Slot(h) + 1].item

C1Kinds == {"GenerationalIndices", "GenerationalIndexArray",
            "GenerationalPointersArray", "EntityAllocator",
            "InPlaceMemoryAllocator"}

\* C1: in GenerationalIndices, GenerationalIndexArray,
\* GenerationalPointersArray, EntityAllocator and InPlaceMemoryAllocator a
\* handle returned by allocate is live from that call on, across every later
\* allocate and every free of another handle, until it is freed itself.
C1_LiveUntilFreed ==
    kind \in C1Kinds => \A h \in issued \ FreedHandles : Live(h)

\* C1 witness: another handle's free has completed while a handle of a
\* different slot, issued and never freed, is around.
C1_Witness ==
    /\ kind \in C1Kinds
    /\ ret.op = "free" /\ ret.res = "ok" /\ ret.live
    /\ \E h \in issued \ FreedHandles : Slot(h) # Slot(ret.h) /\ Live(h)

\* The structs whose free tests is_live in every build.
CheckedKinds == Kinds \ {"Allocator"}

\* C2 as claimed: a handle freed while live is never live again (stated for
\* the structs whose free accepts live handles only).
C2_NeverLiveAgain == kind \in CheckedKinds => \A f \in freed : ~Live(f.h)

\* C2, amended: a handle freed while live is not live again until its slot's
\* generation has been incremented GenMod - 1 more times (the counter has
\* wrapped around to the captured generation).
C2_DeadUntilWrap ==
    \A f \in freed : Live(f.h) => bumps[Slot(f.h) + 1] - f.at >= GenMod - 1

\* C2 witness: a freed handle is not live although its slot has been reused
\* by a newer handle and freed again since.
C2_Witness ==
    \E f \in freed : /\ ~Live(f.h)
                     /\ bumps[Slot(f.h) + 1] > f.at
                     /\ \E c \in issued \ FreedHandles : Slot(c) = Slot(f.h)

C3Kinds == {"GenerationalIndexArray", "GenerationalIndexArrayCell",
            "GIAUninitCell", "GenerationalPointersArray", "EntityAllocator",
            "InPlaceMemoryAllocator"}

\* C3: in the storage strategies free of a handle that is not live panics
\* and leaves the generations, the stored values and the free list as they
\* were.
C3_StaleFreePanics ==
    [][(kind \in C3Kinds /\ ret'.op = "free" /\ ~ret'.live)
        => (ret'.res = "panic" /\ halted' /\ entries' = entries /\ free' = free)]_vars

\* C3 witness: free of a stale handle whose slot a newer handle occupies
\* has panicked.
C3_Witness ==
    /\ kind \in C3Kinds
    /\ ret.op = "free" /\ ~ret.live /\ ret.res = "panic" /\ halted
    /\ \E c \in issued \ FreedHandles : Slot(c) = Slot(ret.h) /\ Live(c)

\* C4: Allocator::free (allocator_with_pointer.rs) of an EntityPtr whose
\* generation no longer matches is rejected: nothing is pushed on the free
\* list, no generation is incremented, no value is dropped again.
C4_StaleFreeRejected ==
    [][(kind = "Allocator" /\ ret'.op = "free" /\ ~ret'.live)
        => (ret'.res = "panic" /\ entries' = entries /\ free' = free
            /\ ret'.drop = "none")]_vars

\* C5: GenerationalIndices::free of a handle that is not live returns
\* normally and changes neither the generations nor the free queue.
C5_StaleFreeIgnored ==
    [][(kind = "GenerationalIndices" /\ ret'.op = "free" /\ ~ret'.live)
        => (ret'.res = "ok" /\ ~halted' /\ entries' = entries /\ free' = free)]_vars

\* C5 witness: a second free of a handle of the table has returned.
C5_Witness ==
    /\ kind = "GenerationalIndices"
    /\ ret.op = "free" /\ ~ret.live /\ ret.res = "ok" /\ ~halted
    /\ ret.h \in FreedHandles

\* C6: dereferencing an EntityPtr that is not live panics, for both
\* EntityPtr types; it never hands out a reference.
C6_DerefChecked ==
    (ret.op \in DerefOps /\ ~ret.live) => ret.res = "panic"

\* C7: InPlaceMemoryAllocator::get with a handle that is not live panics;
\* it never returns a reference to the slot.
C7_GetChecked ==
    (kind = "InPlaceMemoryAllocator" /\ ret.op = "get" /\ ~ret.live)
        => ret.res = "panic"

LookupKinds == {"GenerationalIndexArray", "GenerationalIndexArrayCell",
                "GIAUninitCell", "GenerationalPointersArray"}

\* A lookup with a handle that is not live: None, no panic, nothing changed.
StaleLookupAbsent ==
    ~ret'.live => (ret'.res = "None" /\ ~halted' /\ entries' = entries
                   /\ free' = free)

\* C8 as claimed: a lookup with a handle that is not live returns None and
\* changes nothing, and a lookup with a live handle returns Some.
C8_LookupByLiveness ==
    [][(kind \in LookupKinds /\ ret'.op \in LookupOps)
        => (StaleLookupAbsent /\ (ret'.live => ret'.res = "Some"))]_vars

\* C8, amended: a lookup with a handle that is not live returns None and
\* changes nothing, and a lookup with a handle that was returned by allocate
\* and not freed since returns Some.
C8_LookupByIssue ==
    [][(kind \in LookupKinds /\ ret'.op \in LookupOps)
        => (StaleLookupAbsent
            /\ (ret'.h \notin FreedHandles => ret'.res = "Some" /\ ret'.live))]_vars

\* C8 witness: a lookup with a stale handle whose slot a newer handle
\* occupies has returned None.
C8_Witness ==
    /\ kind \in LookupKinds
    /\ ret.op \in LookupOps /\ ~ret.live /\ ret.res = "None"
    /\ \E c \in issued \ FreedHandles : Slot(c) = Slot(ret.h) /\ Live(c)

\* C9: round trip, for every strategy: the value stored for a handle that
\* was issued and not freed is what a read through it returns, and no
\* allocate and no free of another handle changes it.
C9_RoundTrip ==
    [][/\ (ret'.op \in AllocOps /\ kind # "GenerationalIndices")
            => entries'[Slot(ret'.h) + 1].item.val = ret'.val
       /\ \A h \in issued \ FreedHandles :
            /\ (ret'.op \in AllocOps \cup {"free"} /\ ret'.h # h)
                => entries'[Slot(h) + 1].item = ItemOf(h)
            /\ (ret'.op \in LookupOps \cup DerefOps /\ ret'.h = h
                /\ ret'.res \in {"Some", "ref"})
                => entries'[Slot(h) + 1].item.val = ret'.val]_vars

\* C10: allocate never returns a pair of index (or address) and generation
\* that an earlier allocate returned; a reused slot comes back with a
\* generation no earlier handle of that slot has.
C10_FreshPair ==
    [][ret'.op \in AllocOps => ret'.h \notin issued]_vars

-----------------------------------------------------------------------------
(* Scenarios. *)

\* The slot holds a value.
Occupied(item) == item.st \in {"Some", "init"}

\* The handles whose free was the latest increment of slot i.
LastFreedOf(i) == {f \in freed : Slot(f.h) = i /\ f.at = bumps[i + 1]}

ValueArrayKinds == {"GenerationalIndexArray", "GenerationalPointersArray"}

\* What the allocate that follows free(A) returns when A's slot is the only
\* free slot: C at A's slot, A stale (get(A) absent), C live on an occupied
\* slot (get(C) present).
ReusesSlotOf(a, c) ==
    /\ Slot(c) = Slot(a)
    /\ a.generation # entries'[Slot(a) + 1].generation
    /\ c.generation = entries'[Slot(c) + 1].generation
    /\ Occupied(entries'[Slot(c) + 1].item)

\* C11 as claimed: in GenerationalIndexArray and GenerationalPointersArray,
\* allocate with A's slot as the only free slot returns C with
\* C.index = A.index and C.generation = A.generation + 1; get(A) is absent
\* and get(C) is present.
C11_ReusePlusOne ==
    [][(kind \in ValueArrayKinds /\ ret'.op \in AllocOps /\ Len(free) = 1)
        => \A f \in LastFreedOf(Head(free)) :
             /\ ReusesSlotOf(f.h, ret'.h)
             /\ ret'.h.generation = f.h.generation + 1]_vars

\* C11, amended: the same, with C.generation the u32 successor of
\* A.generation (0 after the largest generation).
C11_ReuseNextGeneration ==
    [][(kind \in ValueArrayKinds /\ ret'.op \in AllocOps /\ Len(free) = 1)
        => \A f \in LastFreedOf(Head(free)) :
             /\ ReusesSlotOf(f.h, ret'.h)
             /\ ret'.h.generation = (f.h.generation + 1) % GenMod]_vars

\* C11 witness: A and B were allocated, A was freed, and the allocate after
\* it has returned C = (A.index, A.generation + 1) while B is still held.
C11_Witness ==
    /\ kind \in ValueArrayKinds
    /\ ret.op \in AllocOps /\ free = <<>>
    /\ \E a \in issued : /\ Slot(a) = Slot(ret.h)
                          /\ ret.h.generation = a.generation + 1
                          /\ ~Live(a) /\ Live(ret.h)
    /\ \E b \in issued \ FreedHandles : Slot(b) # Slot(ret.h) /\ Live(b)

\* The allocate of the step returned a live handle through which the value
\* the init function left is read.
AllocatedLive ==
    /\ ret'.h.generation = entries'[Slot(ret'.h) + 1].generation
    /\ entries'[Slot(ret'.h) + 1].item.val = ret'.val

\* The handle a is not live after the step.
StaleAfter(a) == a.generation # entries'[Slot(a) + 1].generation

\* C12 as claimed: EntityAllocator::allocate returns a live A whose value is
\* what the init function set; after free(A) A is not live; the next
\* allocate returns B at A's address with B.generation = A.generation + 1,
\* B live and A still not live.
C12_PointerScenario ==
    [][kind = "EntityAllocator" =>
        /\ ret'.op = "allocate" => AllocatedLive
        /\ (ret'.op = "free" /\ ret'.res = "ok") => StaleAfter(ret'.h)
        /\ (ret.op = "free" /\ ret.res = "ok" /\ ret'.op = "allocate")
             => /\ ret'.h.ptr = ret.h.ptr
                /\ ret'.h.generation = ret.h.generation + 1
                /\ StaleAfter(ret.h)]_vars

\* C12, amended: the same, with B.generation the u32 successor of
\* A.generation (0 after the largest generation).
C12_PointerScenarioNextGeneration ==
    [][kind = "EntityAllocator" =>
        /\ ret'.op = "allocate" => AllocatedLive
        /\ (ret'.op = "free" /\ ret'.res = "ok") => StaleAfter(ret'.h)
        /\ (ret.op = "free" /\ ret.res = "ok" /\ ret'.op = "allocate")
             => /\ ret'.h.ptr = ret.h.ptr
                /\ ret'.h.generation = (ret.h.generation + 1) % GenMod
                /\ StaleAfter(ret.h)]_vars

\* C12 witness: with two blocks on the free list, the allocate after
\* free(A) has returned B at A's address, one generation later, holding the
\* value the init function set, and A is not live.
C12_Witness ==
    /\ kind = "EntityAllocator"
    /\ ret.op = "allocate" /\ ret.val # DefaultVal /\ Len(free) = 1
    /\ Live(ret.h) /\ ItemOf(ret.h).val = ret.val
    /\ \E f \in LastFreedOf(Slot(ret.h)) :
         /\ f.h.ptr = ret.h.ptr
         /\ ret.h.generation = f.h.generation + 1
         /\ ~Live(f.h)

-----------------------------------------------------------------------------
(* Invariants of the slot vector and the free list. *)

\* The slot a free-list element (an index or an address) refers to.
FreeSlot(x) ==
    IF kind = "EntityAllocator" THEN SlotAt(from_ptr(x))
    ELSE IF kind = "Allocator" THEN SlotAt(x)
    ELSE x

\* The slots in the free list.
FreeSlots == {FreeSlot(free[k]) : k \in 1..Len(free)}

\* C13: every index or address in the free list refers to a vacant slot,
\* and every slot outside the free list for which a live handle was returned
\* holds a value (the handle's generation is the slot's, by liveness).
C13_FreeListVacant ==
    /\ \A i \in FreeSlots : ~Occupied(At(i).item)
    /\ kind # "GenerationalIndices" =>
         \A h \in issued :
            (Live(h) /\ Slot(h) \notin FreeSlots) => Occupied(ItemOf(h))

\* The slots holding a handle that was issued and not freed since.
OccupiedSlots == {Slot(h) : h \in issued \ FreedHandles}

\* C14: the length of the free list plus the number of occupied slots is
\* the number of slots of the slot vector.
C14_SlotCount == Len(free) + Cardinality(OccupiedSlots) = Len(entries)

\* The step is a free that returned and acted on slot i (1-based): the free
\* of a live handle, or one that changed the generation.
FreeActsOn(i) ==
    /\ ret'.op = "free" /\ ret'.res = "ok" /\ i = Slot(ret'.h) + 1
    /\ ret'.live \/ entries'[i].generation # entries[i].generation

\* Only new / allocate append a slot, one at a time, with generation 0.
AppendsAtZero ==
    /\ Len(entries') \in {Len(entries), Len(entries) + 1}
    /\ Len(entries') = Len(entries) + 1
         => (ret'.op \in AllocOps /\ entries'[Len(entries')].generation = 0)

-----------------------------------------------------------------------------
(* GenerationalIndices::new. *)

\* The sequence q without its k-th element.
RemoveAt(q, k) == SubSeq(q, 1, k - 1) \o SubSeq(q, k + 1, Len(q))

\* C16: GenerationalIndices::new with an empty free list appends one slot
\* with generation 0 and returns (previous slot count, 0); with a non-empty
\* free list it appends nothing, removes exactly one index from the free
\* list and returns it with the slot's current generation.
C16_NewAppendsOrReuses ==
    [][(kind = "GenerationalIndices" /\ ret'.op = "new") =>
        IF free = <<>>
        THEN /\ entries' = Append(entries, [generation |-> 0, item |-> NoItem])
             /\ ret'.h = GenerationalIndex(Len(entries), 0)
             /\ free' = <<>>
        ELSE /\ entries' = entries
             /\ \E k \in 1..Len(free) :
                  /\ free' = RemoveAt(free, k)
                  /\ ret'.h = GenerationalIndex(free[k], At(free[k]).generation)]_vars

\* C16 witness: new has reused a freed slot at generation 1 while another
\* index stays in the free list.
C16_Witness ==
    /\ kind = "GenerationalIndices"
    /\ ret.op = "new" /\ ret.h.generation = 1
    /\ Len(free) = 1 /\ free[1] # ret.h.index
    /\ At(ret.h.index).generation = 1

-----------------------------------------------------------------------------
(* Generation overflow. *)

\* The step is the free of a live handle whose slot is at the largest
\* generation.
FreeAtGenMax ==
    ret'.op = "free" /\ ret'.live /\ At(Slot(ret'.h)).generation = GenMax

\* The free wrapped the generation to 0 and returned; the handles that
\* captured generation 0 for the slot are live again.
WrapsToZero ==
    /\ ret'.res = "ok" /\ ~halted'
    /\ entries'[Slot(ret'.h) + 1].generation = 0
    /\ \A h \in issued :
         (Slot(h) = Slot(ret'.h) /\ h.generation = 0)
            => h.generation = entries'[Slot(h) + 1].generation

\* is_live reports liveness as it is.
ReportsLiveness == ret'.op = "is_live" => ((ret'.res = "true") <=> ret'.live)

-----------------------------------------------------------------------------
(* Values: initialisation and drops. *)

\* C18: EntityAllocator::allocate leaves in the slot, on both paths, the
\* init function applied to T::default(): a value, equal to what the call
\* reports, and T::default() itself when the init function assigned nothing
\* (the call dropped nothing).
C18_AllocateWritesFresh ==
    [][(kind = "EntityAllocator" /\ ret'.op = "allocate") =>
        LET item == entries'[Slot(ret'.h) + 1].item
        IN  /\ item.st = "init"
            /\ item.val = ret'.val
            /\ ret'.drop = "none" => item.val = DefaultVal]_vars

\* C19: a successful free drops the value of the freed slot, once, and no
\* call drops a value that was already dropped or the contents of a vacant
\* slot.
C19_DropsOnce ==
    /\ ret.drop # "again"
    /\ (kind # "GenerationalIndices" /\ ret.op = "free" /\ ret.res = "ok" /\ ret.live)
         => ret.drop = "value"

-----------------------------------------------------------------------------
(* EntityAllocator<T> over the stored types T: the layout of EntityEntry<T> *)
(* and the header EntityEntry::from_ptr recovers.  Memory outside the       *)
(* entries is foreign: a read of it yields any generation, a write to it    *)
(* changes no entry.                                                        *)

\* align_of::<T>() of the stored types.
Aligns == {1, 2, 4, 8}

\* The stored types: a size is a multiple of the alignment.
Layouts == {l \in [size : 0..MaxSize, align : Aligns] : l.size % l.align = 0}

\* Address of the i-th Box<EntityEntry<T>>.
EntryAddr(i) == (i + 1) * EntrySize(layout.size, layout.align)

\* new_entry.item.as_mut_ptr() of the i-th entry.
item_as_mut_ptr(i) == EntryAddr(i) + ItemOffset(layout.align)

\* EntityEntry::from_ptr: ptr.sub(size_of::<EntityEntry<T>>() - size_of::<T>()).
EntityEntry_from_ptr(ptr) ==
    ptr - (EntrySize(layout.size, layout.align) - layout.size)

\* The entries whose header is at address a (none: foreign memory).
EntriesAt(a) == {i \in 0..Len(entries) - 1 : EntryAddr(i) = a}

\* The generations a read of from_ptr(ptr).header.generation can yield.
HeaderReads(ptr) ==
    IF EntriesAt(EntityEntry_from_ptr(ptr)) # {}
    THEN {At(i).generation : i \in EntriesAt(EntityEntry_from_ptr(ptr))}
    ELSE 0..GenMax

\* The entry whose value is at ptr.
EntryOf(ptr) == CHOOSE i \in 0..Len(entries) - 1 : item_as_mut_ptr(i) = ptr

\* The call's record in the layout specification.
LayoutRet(op, h, res) ==
    ret' = [op |-> op, h |-> h, res |-> res, val |-> DefaultVal, drop |-> "none",
            live |-> IF op = "allocate" THEN TRUE
                     ELSE h.generation = At(EntryOf(h.ptr)).generation]

LayoutInit ==
    /\ kind = "EntityAllocator"
    /\ debug \in BOOLEAN
    /\ layout \in Layouts
    /\ entries = <<>>
    /\ free = <<>>
    /\ issued = {}
    /\ freed = {}
    /\ bumps = <<>>
    /\ halted = FALSE
    /\ ret = [op |-> "default", h |-> EntityPtr(0, 0), res |-> "ok",
              val |-> DefaultVal, drop |-> "none", live |-> TRUE]

\* EntityAllocator::allocate for the stored type of `layout`.
Layout_allocate(set, v) ==
    /\ ~halted
    /\ set \/ v = DefaultVal
    /\ IF free = <<>>
       THEN LET t_ptr == item_as_mut_ptr(Len(entries))
            IN  /\ Len(entries) < MaxSlots
                /\ entries' = push(entries, [generation |-> 0,
                                             item |-> Written(IF set THEN v ELSE DefaultVal)])
                /\ bumps' = push(bumps, 0)
                /\ free' = free
                /\ issued' = issued \cup {EntityPtr(t_ptr, 0)}
                /\ freed' = freed
                /\ LayoutRet("allocate", EntityPtr(t_ptr, 0), "ok")
       ELSE LET entity_ptr == last(free)
                entry == EntriesAt(EntityEntry_from_ptr(entity_ptr))
            IN  \E generation \in HeaderReads(entity_ptr) :
                  /\ free' = pop(free)
                  /\ entries' = IF set /\ entry # {}
                                THEN SetItem(entries, CHOOSE i \in entry : TRUE, Written(v))
                                ELSE entries
                  /\ issued' = issued \cup {EntityPtr(entity_ptr, generation)}
                  /\ freed' = freed
                  /\ LayoutRet("allocate", EntityPtr(entity_ptr, generation), "ok")
                  /\ UNCHANGED bumps
    /\ UNCHANGED <<layout, kind, debug, halted>>

\* EntityPtr::is_live for the stored type of `layout`.
Layout_is_live(h) ==
    /\ ~halted
    /\ \E generation \in HeaderReads(h.ptr) :
         LayoutRet("is_live", h, IF generation = h.generation THEN "true" ELSE "false")
    /\ UNCHANGED <<layout, kind, debug, entries, free, issued, freed, bumps, halted>>

\* EntityAllocator::free for the stored type of `layout`.
Layout_free(h) ==
    /\ ~halted
    /\ \E generation \in HeaderReads(h.ptr) :
         IF generation # h.generation \/ overflows(generation)
         THEN /\ halted' = TRUE
              /\ LayoutRet("free", h, "panic")
              /\ UNCHANGED <<entries, free, issued, freed, bumps>>
         ELSE LET entry == EntriesAt(EntityEntry_from_ptr(h.ptr))
                  i == CHOOSE i \in entry : TRUE
              IN  /\ Sum(bumps) < MaxFrees /\ Len(free) < MaxSlots
                  /\ entries' = IF entry # {}
                                THEN SetItem(SetGen(i, wrapping_inc(generation)),
                                             i, Dropped(At(i).item))
                                ELSE entries
                  /\ bumps' = IF entry # {}
                              THEN [bumps EXCEPT ![i + 1] = @ + 1]
                              ELSE bumps
                  /\ free' = push(free, h.ptr)
                  /\ freed' = freed
                  /\ issued' = issued
                  /\ LayoutRet("free", h, "ok")
                  /\ UNCHANGED halted
    /\ UNCHANGED <<layout, kind, debug>>

LayoutNext ==
    \/ \E set \in BOOLEAN, v \in Values : Layout_allocate(set, v)
    \/ \E h \in issued : Layout_is_live(h)
    \/ \E h \in issued : Layout_free(h)

LayoutSpec == LayoutInit /\ [][LayoutNext]_vars

\* C20: for every stored type, the offset from_ptr subtracts,
\* size_of::<EntityEntry<T>>() - size_of::<T>(), is the offset of the item
\* field, so from_ptr of a value's address is the address of its entry and
\* is_live reports the generation of that entry's header.
C20_HeaderRecovered ==
    /\ EntrySize(layout.size, layout.align) - layout.size = ItemOffset(layout.align)
    /\ \A i \in 0..Len(entries) - 1 :
         EntityEntry_from_ptr(item_as_mut_ptr(i)) = EntryAddr(i)
    /\ ret.op = "is_live" => ((ret.res = "true") <=> ret.live)

-----------------------------------------------------------------------------
(* One owner per slot. *)

\* No slot appears twice in the free list.
FreeListDistinct ==
    \A j, k \in 1..Len(free) : FreeSlot(free[j]) = FreeSlot(free[k]) => j = k

\* C21: in every allocator at most one issued handle per slot is live, new /
\* allocate never returns the index or address of a slot that holds a handle
\* issued and not freed since, and no slot appears twice in the free list.
C21_OneOwnerPerSlot ==
    [][/\ FreeListDistinct'
       /\ \A a, b \in issued' :
            (Slot(a) = Slot(b)
             /\ a.generation = entries'[Slot(a) + 1].generation
             /\ b.generation = entries'[Slot(b) + 1].generation) => a = b
       /\ ret'.op \in AllocOps => Slot(ret'.h) \notin OccupiedSlots]_vars

\* The live handles, issued and not freed since, of the slot of a.
NewerOwners(a) == {c \in issued \ FreedHandles : Slot(c) = Slot(a) /\ Live(c)}

\* C22: in every allocator a free with a stale handle whose slot a newer
\* live handle C holds leaves C live and the payload of C's slot as it was
\* (as present as before, with the same value), and adds nothing to the
\* free list.
C22_StaleFreeSparesOwner ==
    [][(ret'.op = "free" /\ ~ret'.live) =>
        \A c \in NewerOwners(ret'.h) :
            /\ c.generation = entries'[Slot(c) + 1].generation
            /\ entries'[Slot(c) + 1].item = ItemOf(c)
            /\ free' = free]_vars

-----------------------------------------------------------------------------
(* Panics. *)

\* The step is a call a valid caller makes: new / allocate, is_live, or
\* free, a lookup or a dereference with a handle that is live at the call.
ValidCall == ret'.op \in AllocOps \cup {"is_live"} \/ ret'.live

\* The call completed normally.
Completes == ret'.res # "panic" /\ ~halted'

-----------------------------------------------------------------------------
(* The order of reuse. *)

\* The structs of kyren_generational_indices.rs: the free list is a VecDeque.
QueueKinds == {"GenerationalIndices", "GenerationalIndexArray",
               "GenerationalIndexArrayCell", "GIAUninitCell"}

\* The structs whose free list is a Vec.
StackKinds == Kinds \ QueueKinds

\* A free that changes the free list appends the freed slot at its back, and
\* a free of a live handle that returns does so: the free list is in the
\* order of the frees, the earliest first.
PushedBack ==
    ret'.op = "free" =>
        /\ \/ free' = free
           \/ /\ Len(free') = Len(free) + 1
              /\ SubSeq(free', 1, Len(free)) = free
              /\ FreeSlot(free'[Len(free')]) = Slot(ret'.h)
        /\ (ret'.live /\ ret'.res = "ok") => free' # free

\* new / allocate appends a slot and returns it when no slot is free.
AppendsWhenNoneFree ==
    free = <<>> => /\ Len(entries') = Len(entries) + 1
                   /\ Slot(ret'.h) = Len(entries)
                   /\ free' = free

\* C24: in GenerationalIndices, GenerationalIndexArray,
\* GenerationalIndexArrayCell and GIAUninitCell the free list is a queue: new
\* reuses the slot that was freed earliest and appends a slot only when no
\* slot is free.
C24_ReusesEarliestFreed ==
    [][(kind \in QueueKinds) =>
        (/\ PushedBack
         /\ ret'.op \in AllocOps =>
              /\ AppendsWhenNoneFree
              /\ free # <<>> => /\ Len(entries') = Len(entries)
                                /\ Slot(ret'.h) = FreeSlot(free[1])
                                /\ free' = SubSeq(free, 2, Len(free)))]_vars

\* C24 witness: with two slots free, new has reused one at its new
\* generation and left the other in the queue.
C24_Witness ==
    /\ kind \in QueueKinds \ {"GenerationalIndices"}
    /\ ret.op \in AllocOps /\ ret.h.generation >= 1
    /\ Len(free) = 1 /\ FreeSlot(free[1]) # Slot(ret.h)

\* C25: in GenerationalPointersArray, EntityAllocator, InPlaceMemoryAllocator
\* and allocator_with_pointer::Allocator the free list is a stack: allocate
\* reuses the slot that was freed most recently and appends a slot only when
\* no slot is free.
C25_ReusesLatestFreed ==
    [][(kind \in StackKinds) =>
        (/\ PushedBack
         /\ ret'.op \in AllocOps =>
              /\ AppendsWhenNoneFree
              /\ free # <<>> => /\ Len(entries') = Len(entries)
                                /\ Slot(ret'.h) = FreeSlot(free[Len(free)])
                                /\ free' = SubSeq(free, 1, Len(free) - 1))]_vars

\* C25 witness: with two slots free, allocate has reused one at its new
\* generation and left the other on the stack.
C25_Witness ==
    /\ kind \in StackKinds
    /\ ret.op \in AllocOps /\ ret.h.generation >= 1
    /\ Len(free) = 1 /\ FreeSlot(free[1]) # Slot(ret.h)

-----------------------------------------------------------------------------
(* The bare table as functions of its fields, and the strategies that       *)
(* follow it.                                                               *)

\* The `indices` vector a slot vector carries: the generation of each slot.
IndicesOf(es) == [i \in 1..Len(es) |-> es[i].generation]

\* GenerationalIndices::new on the fields (indices, free): the fields after
\* the call and the handle returned.
Table_new(indices, fr) ==
    IF fr = <<>>
    THEN [indices |-> Append(indices, 0), free |-> fr,
          h |-> GenerationalIndex(Len(indices), 0)]
    ELSE [indices |-> indices, free |-> Tail(fr),
          h |-> GenerationalIndex(Head(fr), indices[Head(fr) + 1])]

\* GenerationalIndices::is_live on the fields.
Table_is_live(indices, h) == h.generation = indices[h.index + 1]

\* GenerationalIndices::free of a live handle on the fields: the index is
\* pushed at the back, then the generation is incremented (the increment
\* panics on overflow in a build with overflow checks).
Table_free(indices, fr, h) ==
    IF debug /\ indices[h.index + 1] = GenMax
    THEN [indices |-> indices, free |-> Append(fr, h.index), res |-> "panic"]
    ELSE [indices |-> [indices EXCEPT ![h.index + 1] = (@ + 1) % GenMod],
          free |-> Append(fr, h.index), res |-> "ok"]

\* The step does to (indices, free) what the table does, and returns the
\* handle the table returns.
FollowsTable ==
    /\ ret'.op \in AllocOps =>
         LET t == Table_new(IndicesOf(entries), free)
         IN  /\ IndicesOf(entries') = t.indices
             /\ free' = t.free
             /\ ret'.h = t.h
    /\ (ret'.op = "free" /\ ret'.live) =>
         LET t == Table_free(IndicesOf(entries), free, ret'.h)
         IN  /\ IndicesOf(entries') = t.indices
             /\ free' = t.free
             /\ ret'.res = t.res
    /\ ret'.op = "is_live" =>
         /\ (ret'.res = "true") <=> Table_is_live(IndicesOf(entries), ret'.h)
         /\ IndicesOf(entries') = IndicesOf(entries) /\ free' = free
    /\ ret'.op \in LookupOps =>
         IndicesOf(entries') = IndicesOf(entries) /\ free' = free

\* C26: GenerationalIndexArray, GenerationalIndexArrayCell and GIAUninitCell
\* refine the bare table: every new and every free of a live handle acts on
\* the generations and the free list as GenerationalIndices does and new
\* returns the handle GenerationalIndices::new returns, so the handles of
\* equal call sequences are equal and is_live agrees on every handle.
C26_ValueArraysFollowTable ==
    [][(kind \in QueueKinds) =>
        (/\ FollowsTable
         /\ \A h \in issued' :
              (h.generation = entries'[Slot(h) + 1].generation)
                  <=> Table_is_live(IndicesOf(entries'), h))]_vars

\* C26 witness: GIAUninitCell::new has reused its slot a second time, at
\* generation 2, while another slot is in the free list.
C26_Witness ==
    /\ kind = "GIAUninitCell"
    /\ ret.op = "new" /\ ret.h.generation = 2
    /\ Len(free) = 1 /\ free[1] # ret.h.index

\* GenerationalPointersArray::allocate on the generations and the free
\* list: the fields after the call and the handle returned.
PointersArray_allocate(generations, fr) ==
    IF fr = <<>>
    THEN [indices |-> Append(generations, 0), free |-> fr,
          h |-> GenerationalIndex(Len(generations), 0)]
    ELSE [indices |-> generations, free |-> SubSeq(fr, 1, Len(fr) - 1),
          h |-> GenerationalIndex(fr[Len(fr)], generations[fr[Len(fr)] + 1])]

\* The allocate step returns the handle f returns on the generations and
\* the free list, and leaves them as f does.
AllocatesAs(f) ==
    /\ IndicesOf(entries') = f.indices
    /\ free' = f.free
    /\ ret'.h = f.h

\* The free of a live handle acts on the generations and the free list as
\* the free of the table and of GenerationalPointersArray does.
FreesAsTable ==
    (ret'.op = "free" /\ ret'.live) =>
        LET t == Table_free(IndicesOf(entries), free, ret'.h)
        IN  /\ IndicesOf(entries') = t.indices
            /\ free' = t.free
            /\ ret'.res = t.res

\* C27 as claimed: InPlaceMemoryAllocator::allocate returns the handle
\* that GenerationalIndices::new (and GenerationalIndexArray::new) and
\* GenerationalPointersArray::allocate return on the same generations and
\* free list, and the frees of live handles act alike.
C27_InPlaceFollowsTable ==
    [][(kind = "InPlaceMemoryAllocator") =>
        (/\ FreesAsTable
         /\ ret'.op \in AllocOps =>
              /\ AllocatesAs(Table_new(IndicesOf(entries), free))
              /\ AllocatesAs(PointersArray_allocate(IndicesOf(entries), free)))]_vars

\* C27, amended: InPlaceMemoryAllocator::allocate returns the handle that
\* GenerationalPointersArray::allocate returns (and GenerationalPointersArray
\* itself does), and the handle of the table when at most one slot is free;
\* the frees of live handles act alike.
C27_InPlaceFollowsPointersArray ==
    [][(kind \in {"InPlaceMemoryAllocator", "GenerationalPointersArray"}) =>
        (/\ FreesAsTable
         /\ ret'.op \in AllocOps =>
              /\ AllocatesAs(PointersArray_allocate(IndicesOf(entries), free))
              /\ Len(free) <= 1 =>
                   AllocatesAs(Table_new(IndicesOf(entries), free)))]_vars

\* C27 witness: with two slots free, InPlaceMemoryAllocator::allocate has
\* reused the slot freed last, slot 0, where the table reuses slot 1.
C27_Witness ==
    /\ kind = "InPlaceMemoryAllocator"
    /\ ret.op = "allocate" /\ ret.h.index = 0 /\ ret.h.generation >= 1
    /\ free = <<1>>

-----------------------------------------------------------------------------
(* Bounds of the indices. *)

\* The structs whose handle is a GenerationalIndex.
IndexKinds == Kinds \ PtrKinds

\* C28: in the index-based allocators the slot vector never shrinks, and
\* the index of every handle issued and every index in the free list is
\* smaller than the length of the slot vector, from the call that produced
\* it on.
C28_IndicesInBounds ==
    [][(kind \in IndexKinds) =>
        (/\ Len(entries') >= Len(entries)
         /\ \A h \in issued' : h.index \in 0..Len(entries') - 1
         /\ \A k \in 1..Len(free') : free'[k] \in 0..Len(entries') - 1)]_vars

\* C28 witness: is_live or a lookup was called with a stale handle of the
\* last slot while an index is in the free list.
C28_Witness ==
    /\ kind \in IndexKinds
    /\ Len(entries) = MaxSlots /\ free # <<>>
    /\ ret.op \in {"is_live"} \cup LookupOps
    /\ ret.h.index = MaxSlots - 1 /\ ~ret.live /\ ~halted

-----------------------------------------------------------------------------
(* Frame of the queries. *)

\* Per slot, whether it holds a value.
OccupancyOf(es) == [i \in 1..Len(es) |-> Occupied(es[i].item)]

\* C29: is_live changes nothing, and a lookup (get / get_mut, with what the
\* caller assigns through the reference) leaves the length of the slot
\* vector, every generation, every slot's vacant / occupied state and the
\* free list as they were, for live and for stale handles.
C29_QueriesChangeNothing ==
    [][/\ ret'.op = "is_live" => (entries' = entries /\ free' = free /\ ~halted')
       /\ ret'.op \in LookupOps =>
            /\ Len(entries') = Len(entries)
            /\ IndicesOf(entries') = IndicesOf(entries)
            /\ OccupancyOf(entries') = OccupancyOf(entries)
            /\ free' = free]_vars

\* C29 witness: get_mut of GenerationalIndexArray has handed out a live
\* slot, the caller has assigned 1 to it, and an index is in the free list.
C29_Witness ==
    /\ kind = "GenerationalIndexArray"
    /\ ret.op = "get_mut" /\ ret.live /\ ret.res = "Some" /\ ret.val = 1
    /\ free # <<>>

====
